---- MODULE Spec2Model ----
(***************************************************************************)
(* Conversation memory and usage accounting of the multi-provider chatbot: *)
(* the embedding store adapter and the summarize-and-prune controller      *)
(* (core/memory.py), the completion bridge (core/providers.py), the token  *)
(* and cost estimator (core/counters.py), the analytics logger             *)
(* (core/utils.py), the per-turn handler of the chat page                  *)
(* (page_modules/chat.py), password hashing, registration and login       *)
(* (core/auth.py), and login, logout and the session timeout around the    *)
(* chat page (app.py, pages/login.py).                                     *)
(*                                                                         *)
(* Collaborators (Supabase tables, the completion providers, the embedding *)
(* model) are modelled by their visible effect; each call to one of them   *)
(* can fail, and the set F of an action names the calls that fail in that  *)
(* run of the handler.                                                     *)
(***************************************************************************)
EXTENDS Integers, Sequences, FiniteSets, TLC

VARIABLES
    memory_vectors,     \* table "memory_vectors", in insertion order
    summaries,          \* table "summaries", in insertion order
    summarized,         \* ghost: for the i-th summary row, the ids of the records it was built from
    analytics,          \* table "analytics", in insertion order
    db_clock,           \* the database's now(), stamped on created_at
    next_id,            \* the next id the store assigns
    user_id,            \* st.session_state.user_id
    history,            \* st.session_state.history (absent before the chat page first runs: <<>>)
    conversation_id,    \* st.session_state.conversation_id
    next_conversation,  \* ghost: the next fresh value generate_conversation_id returns
    total_tokens_used,  \* st.session_state.total_tokens_used
    total_cost,         \* st.session_state.total_cost, in units of 1/160000000 dollar
    provider,           \* the sidebar's "AI Provider" selectbox
    model,              \* the sidebar's "Model" selectbox
    use_memory,         \* the sidebar's "Use conversation memory" checkbox
    recall_count,       \* the sidebar's "Memory recall count" slider
    turns,              \* ghost: the messages submitted so far
    failed_runs,        \* ghost: the runs of the chat page so far in which a collaborator call failed
    detours,            \* ghost: the uses of the sidebar's controls so far
    recalled,           \* ghost: the most recent call of recall, its arguments and what it returned
    users,              \* table "users", in insertion order
    bcrypt_truncates,   \* the installed bcrypt: TRUE hashes the first 72 bytes of a longer password, FALSE raises on one
    last                \* ghost: what the most recent handler run did

vars == << memory_vectors, summaries, summarized, analytics, db_clock, next_id,
           user_id, history, conversation_id, next_conversation,
           total_tokens_used, total_cost, provider, model, use_memory,
           recall_count, turns, failed_runs, detours, recalled, users,
           bcrypt_truncates, last >>

store_vars == << memory_vectors, summaries, summarized, db_clock, next_id >>
session_vars == << user_id, history, conversation_id, next_conversation,
                   total_tokens_used, total_cost >>
sidebar_vars == << provider, model, use_memory, recall_count >>
bound_vars == << turns, failed_runs, detours >>
auth_vars == << users, bcrypt_truncates >>

----------------------------------------------------------------------------
(* Bounds of the model *)

\* the largest number of records of the pruned conversation an initial store holds
MaxRecords == 111
\* created_at ties of an initial store: groups of 1..MaxTie consecutive records share a timestamp
MaxTie == 2
\* the most summary rows a run accumulates
MaxSummaries == 2
\* the most collaborator calls that fail within one run of a handler
MaxFaults == 1

(* Program constants *)

\* summarize_and_prune: len(messages) < 20 aborts
MinMessagesToPrune == 20
\* summarize_and_prune: messages[:-10]
KeepLast == 10
\* summarize_and_prune: get_conversation_messages(..., limit=100)
FetchLimit == 100
\* show_chat_page: message_count >= 20 triggers the auto-summary
AutoSummaryCount == 20
\* recall: "match_threshold": 0.7, in tenths
MatchThreshold == 7

\* Python's None, as a user id and as a conversation id (ids are positive)
None == 0

Min(a, b) == IF a <= b THEN a ELSE b
Max(a, b) == IF a >= b THEN a ELSE b

\* s[-k:]
LastN(s, k) == SubSeq(s, Max(1, Len(s) - k + 1), Len(s))

Providers == {"OpenAI", "Anthropic", "Gemini"}

----------------------------------------------------------------------------
(* The vector store: table "memory_vectors" *)

\* the rows of one (user_id, conversation_id): .eq("user_id", ..).eq("conversation_id", ..)
Scoped(mv, uid, cid) ==
    SelectSeq(mv, LAMBDA r : r.user_id = uid /\ r.conversation_id = cid)

IsSortedByCreatedAt(s) ==
    \A i \in 1..(Len(s) - 1) : s[i].created_at <= s[i + 1].created_at

RECURSIVE InsertByCreatedAt(_, _)
InsertByCreatedAt(r, s) ==
    IF s = <<>> \/ s[Len(s)].created_at <= r.created_at
    THEN Append(s, r)
    ELSE Append(InsertByCreatedAt(r, SubSeq(s, 1, Len(s) - 1)), s[Len(s)])

RECURSIVE SortRows(_)
SortRows(s) ==
    IF s = <<>> THEN <<>>
    ELSE InsertByCreatedAt(s[Len(s)], SortRows(SubSeq(s, 1, Len(s) - 1)))

\* .order("created_at", desc=False): ascending created_at; rows with equal
\* created_at come in insertion order (a scan already in order is returned as it is)
OrderByCreatedAt(s) == IF IsSortedByCreatedAt(s) THEN s ELSE SortRows(s)

\* .limit(limit)
Limit(s, limit) == SubSeq(s, 1, Min(limit, Len(s)))

\* MemoryManager.get_conversation_messages; ok = the query did not raise
get_conversation_messages(mv, uid, cid, limit, ok) ==
    IF ok THEN Limit(OrderByCreatedAt(Scoped(mv, uid, cid)), limit) ELSE <<>>

\* MemoryManager.count_messages; ok = the query did not raise
count_messages(mv, uid, cid, ok) ==
    IF ok THEN Len(Scoped(mv, uid, cid)) ELSE 0

\* the row add_message inserts; id and created_at are assigned by the store
NewRow(id, uid, role, content, cid, now) ==
    [id |-> id, user_id |-> uid, role |-> role, content |-> content,
     conversation_id |-> cid, created_at |-> now]

\* MemoryManager.add_message; ok = neither encode nor the insert raised
add_message(mv, id, now, uid, role, content, cid, ok) ==
    IF ok THEN Append(mv, NewRow(id, uid, role, content, cid, now)) ELSE mv

\* MemoryManager.delete_conversation; ok = the delete did not raise
delete_conversation(mv, uid, cid, ok) ==
    IF ok
    THEN SelectSeq(mv, LAMBDA r : ~(r.user_id = uid /\ r.conversation_id = cid))
    ELSE mv

\* (mutant) a range delete that leaves out the conversation filter
DeleteUpTo_any_conversation(mv, uid, cid, ts) ==
    SelectSeq(mv, LAMBDA r : ~(r.user_id = uid /\ r.created_at <= ts))

\* .delete().eq("user_id", ..).eq("conversation_id", ..).lte("created_at", ts)
DeleteUpTo(mv, uid, cid, ts) ==
    SelectSeq(mv, LAMBDA r :
        ~(r.user_id = uid /\ r.conversation_id = cid /\ r.created_at <= ts))

\* MemoryManager.summarize_conversation; ok = the insert did not raise
summarize_conversation(sm, uid, cid, summary, message_count, ok) ==
    IF ok
    THEN Append(sm, [user_id |-> uid, conversation_id |-> cid,
                     summary |-> summary, messages_count |-> message_count])
    ELSE sm

----------------------------------------------------------------------------
(* The completion bridge *)

\* LLMBridge.get_default_model
get_default_model(p) ==
    IF p = "OpenAI" THEN "gpt-4.1"
    ELSE IF p = "Anthropic" THEN "claude-sonnet-4-20250514"
    ELSE IF p = "Gemini" THEN "gemini-2.5-pro"
    ELSE ""

\* (mutant) a bridge that swallows the failure of the provider's API call
chat_raises_never(p, api_raises) == FALSE

\* LLMBridge.chat: raises for a provider it does not know and when the
\* provider's API call raises (api_raises)
chat_raises(p, api_raises) == p \notin Providers \/ api_raises

\* the contents of the messages of a list, in order
ContentsOf(messages) == [i \in 1..Len(messages) |-> messages[i].content]

\* the messages of a list that have one of the roles
WithRole(messages, roles) == SelectSeq(messages, LAMBDA x : x.role \in roles)

\* LLMBridge._chat_openai: the list is passed on as it is
chat_openai_request(messages) ==
    [api |-> "chat.completions.create", system |-> "", messages |-> messages,
     prompt |-> ""]

\* LLMBridge._chat_anthropic: the content of the (last) system message goes
\* into system, the other messages into messages
chat_anthropic_request(messages) ==
    [api |-> "messages.create",
     system |-> IF WithRole(messages, {"system"}) = <<>> THEN ""
                ELSE WithRole(messages, {"system"})[Len(WithRole(messages, {"system"}))].content,
     messages |-> [i \in 1..Len(SelectSeq(messages, LAMBDA x : x.role # "system")) |->
                     [role |-> SelectSeq(messages, LAMBDA x : x.role # "system")[i].role,
                      content |-> SelectSeq(messages, LAMBDA x : x.role # "system")[i].content]],
     prompt |-> ""]

\* LLMBridge._chat_gemini: the prompt is the content of the last user or
\* assistant message; nothing else of the list is sent
chat_gemini_request(messages) ==
    [api |-> "generate_content", system |-> "", messages |-> <<>>,
     prompt |-> IF WithRole(messages, {"user", "assistant"}) = <<>> THEN ""
                ELSE WithRole(messages, {"user", "assistant"})
                        [Len(WithRole(messages, {"user", "assistant"}))].content]

\* no request: the bridge was not called
NoRequest == [api |-> "", system |-> "", messages |-> <<>>, prompt |-> ""]

\* LLMBridge.chat: the request made to the provider's API
chat_request(p, messages) ==
    IF p = "OpenAI" THEN chat_openai_request(messages)
    ELSE IF p = "Anthropic" THEN chat_anthropic_request(messages)
    ELSE IF p = "Gemini" THEN chat_gemini_request(messages)
    ELSE NoRequest

\* LLMBridge.extract_content: the text of the response, or the text of the
\* error when reading the response raised (read_raises)
extract_content(p, text, read_raises) ==
    IF read_raises THEN "Error extracting content" ELSE text

\* LLMBridge.extract_content returning None: an OpenAI completion whose
\* message carries no text (response.choices[0].message.content is None)
extract_content_none(p, null_content) == p = "OpenAI" /\ null_content

----------------------------------------------------------------------------
(* The summarize-and-prune controller *)

\* (mutant) the abort tests the size of the kept window instead of the threshold
TooFewToPrune_keep(messages) == Len(messages) < KeepLast

\* len(messages) < 20
TooFewToPrune(messages) == Len(messages) < MinMessagesToPrune

\* (mutant) an off-by-one slice, messages[:-9]
MessagesToSummarize_off(messages) == SubSeq(messages, 1, Len(messages) - (KeepLast - 1))

\* messages[:-10]
MessagesToSummarize(messages) == SubSeq(messages, 1, Len(messages) - KeepLast)

\* the calls of one pass that can fail
PruneFaults == {"client", "fetch", "chat", "extract", "insert", "delete"}

\* MemoryManager.summarize_and_prune as a function of the tables:
\* the tables after the pass, its return value, the number of completion
\* calls it made and the ids of the rows it summarized
summarize_and_prune(mv, sm, uid, cid, p, F) ==
    LET unchanged(calls) == [mv |-> mv, sm |-> sm, ret |-> FALSE, llm_calls |-> calls,
                             covered |-> {}, stored |-> FALSE]
        messages == get_conversation_messages(mv, uid, cid, FetchLimit, "fetch" \notin F)
        to_summarize == MessagesToSummarize(messages)
        summary == extract_content(p, "summary", "extract" \in F)
        sm2 == summarize_conversation(sm, uid, cid, summary, Len(to_summarize),
                                      "insert" \notin F)
        oldest_timestamp == to_summarize[Len(to_summarize)].created_at
    IN  IF "client" \in F THEN unchanged(0)
        ELSE IF TooFewToPrune(messages) THEN unchanged(0)
        ELSE IF chat_raises(p, "chat" \in F) THEN unchanged(1)
        ELSE IF Len(to_summarize) > 0 /\ "delete" \in F
             THEN [mv |-> mv, sm |-> sm2, ret |-> FALSE, llm_calls |-> 1,
                   covered |-> {to_summarize[i].id : i \in 1..Len(to_summarize)},
                   stored |-> "insert" \notin F]
        ELSE [mv |-> IF Len(to_summarize) > 0
                     THEN DeleteUpTo(mv, uid, cid, oldest_timestamp) ELSE mv,
              sm |-> sm2, ret |-> TRUE, llm_calls |-> 1,
              covered |-> {to_summarize[i].id : i \in 1..Len(to_summarize)},
              stored |-> "insert" \notin F]

\* the calls of the auto-summary check that can fail
CheckFaults == PruneFaults \cup {"count"}

\* (mutant) the auto-summary from the 21st stored message on
ReachedAutoSummary_above(message_count) == message_count > AutoSummaryCount

\* message_count >= 20
ReachedAutoSummary(message_count) == message_count >= AutoSummaryCount

\* the tables when no pass ran
no_pass(mv, sm) ==
    [mv |-> mv, sm |-> sm, ret |-> FALSE, llm_calls |-> 0, covered |-> {},
     stored |-> FALSE]

\* the outcome of a pass, with the calls the check made
with_steps(res, steps) ==
    [mv |-> res.mv, sm |-> res.sm, ret |-> res.ret, llm_calls |-> res.llm_calls,
     covered |-> res.covered, stored |-> res.stored, steps |-> steps]

\* show_chat_page, "Check for auto-summary": count the stored messages and, from
\* 20 on, summarize and prune; steps names the calls made
pruning_check(mv, sm, uid, cid, p, F) ==
    IF ReachedAutoSummary(count_messages(mv, uid, cid, "count" \notin F))
    THEN with_steps(summarize_and_prune(mv, sm, uid, cid, p, F),
                    <<"count_messages", "summarize_and_prune">>)
    ELSE with_steps(no_pass(mv, sm), <<"count_messages">>)

----------------------------------------------------------------------------
(* Texts *)

\* the characters str.split() and str.strip() treat as white space
IsSpace(c) == c \in {" ", "\n", "\t"}

CharAt(text, i) == SubSeq(text, i, i)

\* len(text.split()): the number of maximal runs of characters that are not white space
WordCount(text) ==
    Cardinality({i \in 1..Len(text) :
        /\ ~IsSpace(CharAt(text, i))
        /\ (i = 1 \/ IsSpace(CharAt(text, i - 1)))})

\* text.startswith(prefix)
StartsWith(text, prefix) ==
    Len(text) >= Len(prefix) /\ SubSeq(text, 1, Len(prefix)) = prefix

\* kw in text
Contains(text, kw) ==
    \E i \in 1..(Len(text) - Len(kw) + 1) : SubSeq(text, i, i + Len(kw) - 1) = kw

UpperCase == "ABCDEFGHIJKLMNOPQRSTUVWXYZ"
LowerCase == "abcdefghijklmnopqrstuvwxyz"

\* c.lower() of one character
LowerChar(c) ==
    IF \E i \in 1..Len(UpperCase) : CharAt(UpperCase, i) = c
    THEN CharAt(LowerCase, CHOOSE i \in 1..Len(UpperCase) : CharAt(UpperCase, i) = c)
    ELSE c

RECURSIVE Lower(_)
\* text.lower()
Lower(text) ==
    IF text = "" THEN ""
    ELSE LowerChar(CharAt(text, 1)) \o Lower(SubSeq(text, 2, Len(text)))

RECURSIVE LStrip(_)
\* text.lstrip()
LStrip(text) ==
    IF text # "" /\ IsSpace(CharAt(text, 1))
    THEN LStrip(SubSeq(text, 2, Len(text))) ELSE text

RECURSIVE RStrip(_)
\* text.rstrip()
RStrip(text) ==
    IF text # "" /\ IsSpace(CharAt(text, Len(text)))
    THEN RStrip(SubSeq(text, 1, Len(text) - 1)) ELSE text

\* text.strip()
Strip(text) == RStrip(LStrip(text))

----------------------------------------------------------------------------
(* The token and cost estimator: TokenCounter *)

\* TokenCounter.pricing: the rates per 1K tokens, in units of 1/160000 dollar
\* (0.00000625), the largest unit in which every rate is a whole number
pricing ==
    {
      [provider |-> "OpenAI", model |-> "gpt-4.1", input |-> 320, output |-> 1280],
      [provider |-> "OpenAI", model |-> "o3", input |-> 320, output |-> 1280],
      [provider |-> "OpenAI", model |-> "gpt-4o", input |-> 800, output |-> 2400],
      [provider |-> "OpenAI", model |-> "o4-mini-deep-research", input |-> 176, output |-> 704],
      [provider |-> "OpenAI", model |-> "gpt-4.1-mini", input |-> 64, output |-> 256],
      [provider |-> "OpenAI", model |-> "gpt-4.1-nano", input |-> 16, output |-> 64],
      [provider |-> "OpenAI", model |-> "o3-pro", input |-> 3200, output |-> 12800],
      [provider |-> "OpenAI", model |-> "gpt-4", input |-> 4800, output |-> 9600],
      [provider |-> "OpenAI", model |-> "gpt-4-turbo", input |-> 1600, output |-> 4800],
      [provider |-> "OpenAI", model |-> "gpt-3.5-turbo", input |-> 160, output |-> 320],
      [provider |-> "Anthropic", model |-> "claude-sonnet-4-20250514", input |-> 480, output |-> 2400],
      [provider |-> "Anthropic", model |-> "claude-opus-4-20250514", input |-> 2400, output |-> 12000],
      [provider |-> "Anthropic", model |-> "claude-3-opus-20240229", input |-> 2400, output |-> 12000],
      [provider |-> "Anthropic", model |-> "claude-3-sonnet-20240229", input |-> 480, output |-> 2400],
      [provider |-> "Anthropic", model |-> "claude-3-haiku-20240307", input |-> 40, output |-> 200],
      [provider |-> "Anthropic", model |-> "claude-3-7-sonnet-20250219", input |-> 480, output |-> 2400],
      [provider |-> "Anthropic", model |-> "claude-3-5-sonnet-20241022", input |-> 480, output |-> 2400],
      [provider |-> "Anthropic", model |-> "claude-3-5-haiku-20241022", input |-> 160, output |-> 800],
      [provider |-> "Gemini", model |-> "gemini-2.5-pro", input |-> 200, output |-> 800],
      [provider |-> "Gemini", model |-> "gemini-2.5-flash", input |-> 48, output |-> 400],
      [provider |-> "Gemini", model |-> "gemini-2.5-flash-lite", input |-> 16, output |-> 64],
      [provider |-> "Gemini", model |-> "gemini-2.0-flash", input |-> 6, output |-> 24],
      [provider |-> "Gemini", model |-> "gemini-2.0-flash-lite", input |-> 3, output |-> 12],
      [provider |-> "Gemini", model |-> "gemini-pro", input |-> 80, output |-> 240],
      [provider |-> "Gemini", model |-> "gemini-pro-vision", input |-> 80, output |-> 240]
    }

\* self.pricing.get(provider, {}).get(key, {}): the entry of (provider, key), {} when there is none
PricingEntry(p, key) ==
    {e \in pricing : e.provider = p /\ e.model = key}

\* TokenCounter.is_model_supported
is_model_supported(p, m) == PricingEntry(p, m) # {}

\* len(encoding.encode(text)) of tiktoken's cl100k_base encoder, which every
\* branch of _count_openai_tokens selects: stood in for by one token per
\* four characters, rounded up
Tiktoken(text) == (Len(text) + 3) \div 4

\* TokenCounter._count_openai_tokens; tiktoken_ok = tiktoken did not raise
count_openai_tokens(m, text, tiktoken_ok) ==
    IF tiktoken_ok THEN Tiktoken(text) ELSE (WordCount(text) * 13) \div 10

\* TokenCounter._count_anthropic_tokens: max(1, int(len(text) / 3.8))
count_anthropic_tokens(text) == Max(1, (Len(text) * 10) \div 38)

\* TokenCounter._count_gemini_tokens: max(1, int(len(text) / 3.7))
count_gemini_tokens(text) == Max(1, (Len(text) * 10) \div 37)

\* TokenCounter.count_tokens
count_tokens(p, m, text, tiktoken_ok) ==
    IF p = "OpenAI" THEN count_openai_tokens(m, text, tiktoken_ok)
    ELSE IF p = "Anthropic" THEN count_anthropic_tokens(text)
    ELSE IF p = "Gemini" THEN count_gemini_tokens(text)
    ELSE WordCount(text)

\* TokenCounter.count_tokens on None: every branch raises (encode(None) and
\* then None.split() in the fallback, len(None), None.split())
count_tokens_raises(text_is_none) == text_is_none

RECURSIVE SumTokens(_, _, _, _)
SumTokens(p, m, messages, tiktoken_ok) ==
    IF messages = <<>> THEN 0
    ELSE count_tokens(p, m, Head(messages).content, tiktoken_ok) + 4
         + SumTokens(p, m, Tail(messages), tiktoken_ok)

\* (mutant) the per-conversation overhead left out
count_messages_tokens_no_overhead(p, m, messages, tiktoken_ok) ==
    SumTokens(p, m, messages, tiktoken_ok)

\* TokenCounter.count_messages_tokens
count_messages_tokens(p, m, messages, tiktoken_ok) ==
    SumTokens(p, m, messages, tiktoken_ok) + 3

\* the fuzzy matching of estimate_cost for OpenAI
FuzzyOpenAI(m) ==
    IF Contains(m, "gpt-4.1")
    THEN IF Contains(m, "mini") THEN PricingEntry("OpenAI", "gpt-4.1-mini")
         ELSE IF Contains(m, "nano") THEN PricingEntry("OpenAI", "gpt-4.1-nano")
         ELSE PricingEntry("OpenAI", "gpt-4.1")
    ELSE IF Contains(m, "o3")
    THEN IF Contains(m, "pro") THEN PricingEntry("OpenAI", "o3-pro")
         ELSE PricingEntry("OpenAI", "o3")
    ELSE IF Contains(m, "gpt-4o") THEN PricingEntry("OpenAI", "gpt-4o")
    ELSE IF Contains(m, "o4-mini") THEN PricingEntry("OpenAI", "o4-mini-deep-research")
    ELSE IF Contains(m, "gpt-4") THEN PricingEntry("OpenAI", "gpt-4")
    ELSE {}

\* the fuzzy matching of estimate_cost for Anthropic
FuzzyAnthropic(m) ==
    IF Contains(m, "claude-4") \/ Contains(m, "sonnet-4")
    THEN PricingEntry("Anthropic", "claude-sonnet-4-20250514")
    ELSE IF Contains(m, "opus-4") THEN PricingEntry("Anthropic", "claude-opus-4-20250514")
    ELSE IF Contains(m, "claude-3")
    THEN IF Contains(m, "opus") THEN PricingEntry("Anthropic", "claude-3-opus-20240229")
         ELSE IF Contains(m, "sonnet") THEN PricingEntry("Anthropic", "claude-3-sonnet-20240229")
         ELSE IF Contains(m, "haiku") THEN PricingEntry("Anthropic", "claude-3-haiku-20240307")
         ELSE {}
    ELSE {}

\* the fuzzy matching of estimate_cost for Gemini
FuzzyGemini(m) ==
    IF Contains(m, "2.5")
    THEN IF Contains(m, "pro") THEN PricingEntry("Gemini", "gemini-2.5-pro")
         ELSE IF Contains(m, "flash-lite") \/ Contains(m, "lite")
              THEN PricingEntry("Gemini", "gemini-2.5-flash-lite")
         ELSE IF Contains(m, "flash") THEN PricingEntry("Gemini", "gemini-2.5-flash")
         ELSE {}
    ELSE IF Contains(m, "2.0")
    THEN IF Contains(m, "lite") THEN PricingEntry("Gemini", "gemini-2.0-flash-lite")
         ELSE PricingEntry("Gemini", "gemini-2.0-flash")
    ELSE IF Contains(m, "gemini-pro") THEN PricingEntry("Gemini", "gemini-pro")
    ELSE {}

\* (mutant) the family match tried before the exact entry
model_pricing_fuzzy_first(p, m) ==
    LET fuzzy == IF p = "OpenAI" THEN FuzzyOpenAI(Lower(m))
                 ELSE IF p = "Anthropic" THEN FuzzyAnthropic(Lower(m))
                 ELSE IF p = "Gemini" THEN FuzzyGemini(Lower(m))
                 ELSE {}
    IN  IF fuzzy # {} THEN fuzzy ELSE PricingEntry(p, m)

\* the pricing entry estimate_cost settles on: the exact one, else the fuzzy
\* match on the lower-cased model name, else {}
model_pricing(p, m) ==
    IF PricingEntry(p, m) # {} THEN PricingEntry(p, m)
    ELSE IF p = "OpenAI" THEN FuzzyOpenAI(Lower(m))
    ELSE IF p = "Anthropic" THEN FuzzyAnthropic(Lower(m))
    ELSE IF p = "Gemini" THEN FuzzyGemini(Lower(m))
    ELSE {}

\* (mutant) the output cost taken off instead of added
estimate_cost_difference(p, m, input_tokens, output_tokens) ==
    LET entry == model_pricing(p, m)
        rate == CHOOSE e \in entry : TRUE
    IN  IF entry = {} THEN 0
        ELSE input_tokens * rate.input - output_tokens * rate.output

\* TokenCounter.estimate_cost, in units of 1/160000000 dollar:
\* (input_tokens / 1000) * input rate + (output_tokens / 1000) * output rate
estimate_cost(p, m, input_tokens, output_tokens) ==
    LET entry == model_pricing(p, m)
        rate == CHOOSE e \in entry : TRUE
    IN  IF entry = {} THEN 0
        ELSE input_tokens * rate.input + output_tokens * rate.output

\* (mutant) the accuracy flag raised for every model
get_token_info_accurate(p, m, messages, response_text, tiktoken_ok) ==
    LET input_tokens == count_messages_tokens(p, m, messages, tiktoken_ok)
        output_tokens == IF response_text # ""
                         THEN count_tokens(p, m, response_text, tiktoken_ok) ELSE 0
        estimated_cost == estimate_cost(p, m, input_tokens, output_tokens)
    IN  [input_tokens |-> input_tokens, output_tokens |-> output_tokens,
         total_tokens |-> input_tokens + output_tokens,
         estimated_cost |-> estimated_cost, provider |-> p, model |-> m,
         model_supported |-> is_model_supported(p, m),
         cost_accuracy |-> "accurate"]

\* TokenCounter.get_token_info
get_token_info(p, m, messages, response_text, tiktoken_ok) ==
    LET input_tokens == count_messages_tokens(p, m, messages, tiktoken_ok)
        output_tokens == IF response_text # ""
                         THEN count_tokens(p, m, response_text, tiktoken_ok) ELSE 0
        estimated_cost == estimate_cost(p, m, input_tokens, output_tokens)
        model_supported == is_model_supported(p, m)
    IN  [input_tokens |-> input_tokens, output_tokens |-> output_tokens,
         total_tokens |-> input_tokens + output_tokens,
         estimated_cost |-> estimated_cost, provider |-> p, model |-> m,
         model_supported |-> model_supported,
         cost_accuracy |-> IF model_supported \/ estimated_cost > 0
                           THEN "accurate" ELSE "estimated"]

----------------------------------------------------------------------------
(* Recall *)

\* self.embedding_model.encode(text): the sentence embedding, stood in for by
\* a position on a line
Embedding(text) ==
    IF text = "hi" THEN 0
    ELSE IF text = "ok" THEN 1
    ELSE IF text = "what is tla" THEN 3
    ELSE 2

\* the similarity of two embeddings in tenths: 10 for equal ones, 3 less per step apart
Similarity(a, b) ==
    LET d == IF a >= b THEN a - b ELSE b - a IN Max(0, 10 - 3 * d)

\* a row as match_memory_vectors returns it
MatchOf(r, query_embedding) ==
    [id |-> r.id, user_id |-> r.user_id, conversation_id |-> r.conversation_id,
     role |-> r.role, content |-> r.content,
     similarity |-> Similarity(Embedding(r.content), query_embedding)]

RECURSIVE RankFrom(_, _)
\* the matches of similarity level and below, most similar first
RankFrom(level, matches) ==
    IF level < 0 THEN <<>>
    ELSE SelectSeq(matches, LAMBDA x : x.similarity = level) \o RankFrom(level - 1, matches)

\* the stored procedure match_memory_vectors: the rows of the user (and of the
\* conversation, when one is given) whose similarity to the query is at least
\* match_threshold, most similar first, at most match_count of them
match_memory_vectors(mv, query_embedding, match_threshold, match_count, p_user_id, p_conversation_id) ==
    LET rows == SelectSeq(mv, LAMBDA r :
                    /\ r.user_id = p_user_id
                    /\ (p_conversation_id = None \/ r.conversation_id = p_conversation_id))
        matches == [i \in 1..Len(rows) |-> MatchOf(rows[i], query_embedding)]
        close == SelectSeq(matches, LAMBDA x : x.similarity >= match_threshold)
    IN  Limit(RankFrom(10, close), match_count)

\* (mutant) recall asking for one match more than k
RecallCount_more(k) == k + 1

\* the arguments recall passes to the stored procedure
RecallThreshold == MatchThreshold
RecallCount(k) == k

\* MemoryManager.recall; ok = neither encode nor the rpc raised
recall(mv, uid, query, k, cid, ok) ==
    IF ok
    THEN match_memory_vectors(mv, Embedding(query), RecallThreshold, RecallCount(k), uid, cid)
    ELSE <<>>

----------------------------------------------------------------------------
(* Observations *)

\* what one run of a handler did: the operation, the calls that failed, the
\* number of rows of the conversation before it, its return value, the
\* completion calls it made, the collaborator calls in order, the errors
\* shown (st.error), and the tokens and cost it counted for the turn
Obs(op, F, n, ret, llm, steps, errors, tokens, cost) ==
    [op |-> op, F |-> F, n |-> n, ret |-> ret, llm_calls |-> llm,
     steps |-> steps, errors |-> errors, tokens |-> tokens, cost |-> cost]

\* a call of recall: its arguments, whether encode and the rpc went through,
\* and the list it returned
RecallCall(uid, query, k, cid, ok, result) ==
    [user_id |-> uid, query |-> query, k |-> k, conversation_id |-> cid,
     ok |-> ok, result |-> result]

\* before the first call of recall
NoRecall == RecallCall(None, "", 0, None, FALSE, <<>>)

RECURSIVE SubsetsUpTo(_, _)
\* the subsets of S of at most k elements
SubsetsUpTo(S, k) ==
    IF k = 0 THEN {{}}
    ELSE LET smaller == SubsetsUpTo(S, k - 1)
         IN  smaller \cup {T \cup {x} : T \in smaller, x \in S}

\* the sets of calls that fail in one run of a handler
FaultSets(points) == SubsetsUpTo(points, MaxFaults)

\* the rows of the session's conversation
Mine(mv) == Scoped(mv, user_id, conversation_id)

Ids(s) == {s[i].id : i \in 1..Len(s)}

----------------------------------------------------------------------------
(* The store on its own: the memory manager's operations called on a stored conversation *)

\* rows of another user (user 2, conversation 1) and of another conversation
\* of the same user (user 1, conversation 2)
ForeignRows ==
    << NewRow(1, 2, "user", "hi", 1, 1), NewRow(2, 1, "user", "hi", 2, 1) >>

\* n rows of conversation 1 of user 1, written in turn; every g consecutive rows share a created_at
StoredConversation(n, g) ==
    [i \in 1..n |->
        NewRow(i + 2, 1, IF i % 2 = 1 THEN "user" ELSE "assistant",
               IF i % 2 = 1 THEN "hi" ELSE "ok", 1, ((i - 1) \div g) + 1)]

InitStore ==
    /\ users = <<>>
    /\ bcrypt_truncates = TRUE
    /\ \E n \in 0..MaxRecords, g \in 1..MaxTie :
          /\ memory_vectors = ForeignRows \o StoredConversation(n, g)
          /\ next_id = n + 3
          /\ db_clock = n + 2
    /\ summaries = <<>>
    /\ summarized = <<>>
    /\ analytics = <<>>
    /\ user_id = 1
    /\ history = <<>>
    /\ conversation_id = 1
    /\ next_conversation = 3
    /\ total_tokens_used = 0
    /\ total_cost = 0
    /\ provider = "Anthropic"
    /\ model = get_default_model("Anthropic")
    /\ use_memory = TRUE
    /\ recall_count = 4
    /\ turns = 0
    /\ failed_runs = 0
    /\ detours = 0
    /\ recalled = NoRecall
    /\ last = Obs("init", {}, 0, FALSE, 0, <<>>, 0, 0, 0)

\* the effect of a pass on the tables
ApplyPass(res) ==
    /\ memory_vectors' = res.mv
    /\ summaries' = res.sm
    /\ summarized' = IF res.stored THEN Append(summarized, res.covered) ELSE summarized

\* a direct call of summarize_and_prune on the session's conversation
SummarizeAndPrune ==
    /\ Len(summaries) < MaxSummaries
    /\ \E p \in {"OpenAI", "Cohere"}, F \in FaultSets(PruneFaults) :
          \E res \in {summarize_and_prune(memory_vectors, summaries, user_id,
                                          conversation_id, p, F)} :
              /\ ApplyPass(res)
              /\ last' = Obs("summarize_and_prune", F, Len(Mine(memory_vectors)),
                             res.ret, res.llm_calls, <<"summarize_and_prune">>, 0, 0, 0)
    /\ UNCHANGED << auth_vars, analytics, db_clock, next_id, session_vars, sidebar_vars, bound_vars,
                    recalled >>

\* the auto-summary check of the chat page run on the session's conversation
PruningCheck ==
    /\ Len(summaries) < MaxSummaries
    /\ \E F \in FaultSets(CheckFaults) :
          \E res \in {pruning_check(memory_vectors, summaries, user_id,
                                    conversation_id, provider, F)} :
              /\ ApplyPass(res)
              /\ last' = Obs("pruning_check", F, Len(Mine(memory_vectors)),
                             res.ret, res.llm_calls,
                             res.steps, 0, 0, 0)
    /\ UNCHANGED << auth_vars, analytics, db_clock, next_id, session_vars, sidebar_vars, bound_vars,
                    recalled >>

\* a direct call of delete_conversation on the session's conversation
DeleteConversation ==
    /\ \E F \in FaultSets({"delete"}) :
          /\ memory_vectors' = delete_conversation(memory_vectors, user_id,
                                                   conversation_id, "delete" \notin F)
          /\ last' = Obs("delete_conversation", F, Len(Mine(memory_vectors)),
                         "delete" \notin F, 0, <<"delete_conversation">>, 0, 0, 0)
    /\ UNCHANGED << auth_vars, summaries, summarized, analytics, db_clock, next_id,
                    session_vars, sidebar_vars, bound_vars, recalled >>

NextStore == SummarizeAndPrune \/ PruningCheck \/ DeleteConversation

SpecStore == InitStore /\ [][NextStore]_vars

----------------------------------------------------------------------------
(* Recall on its own: MemoryManager.recall called on a stored conversation *)

\* the most rows of the queried conversation an initial store holds
MaxRecallRows == 5
\* the largest k asked for
MaxK == 4
\* the most calls of recall in a run
MaxRecalls == 1

\* what the stored messages say and what is asked
Contents == {"hi", "ok", "bye", "what is tla"}
Queries == {"hi", "what is tla"}

\* rows of another user and of another conversation that are as close to the
\* queries as rows can be
Decoys ==
    << NewRow(1, 2, "user", "hi", 1, 1), NewRow(2, 2, "assistant", "what is tla", 1, 2),
       NewRow(3, 1, "user", "hi", 2, 3), NewRow(4, 1, "assistant", "what is tla", 2, 4) >>

\* the rows of conversation 1 of user 1 that say c[1], c[2], ...
Remembered(c) ==
    [i \in 1..Len(c) |->
        NewRow(i + 4, 1, IF i % 2 = 1 THEN "user" ELSE "assistant", c[i], 1, i + 4)]

InitRecall ==
    /\ users = <<>>
    /\ bcrypt_truncates = TRUE
    /\ \E n \in 0..MaxRecallRows : \E c \in [1..n -> Contents] :
          /\ memory_vectors = Decoys \o Remembered(c)
          /\ next_id = n + 5
          /\ db_clock = n + 5
    /\ summaries = <<>>
    /\ summarized = <<>>
    /\ analytics = <<>>
    /\ user_id = 1
    /\ history = <<>>
    /\ conversation_id = 1
    /\ next_conversation = 3
    /\ total_tokens_used = 0
    /\ total_cost = 0
    /\ provider = "Anthropic"
    /\ model = get_default_model("Anthropic")
    /\ use_memory = TRUE
    /\ recall_count = 4
    /\ turns = 0
    /\ failed_runs = 0
    /\ detours = 0
    /\ recalled = NoRecall
    /\ last = Obs("init", {}, 0, FALSE, 0, <<>>, 0, 0, 0)

\* a call of recall for the session's user, within the conversation or across
\* the user's conversations (conversation_id=None)
Recall ==
    /\ turns < MaxRecalls
    /\ \E query \in Queries, k \in 1..MaxK, cid \in {conversation_id, None},
          F \in FaultSets({"recall"}) :
          /\ recalled' = RecallCall(user_id, query, k, cid, "recall" \notin F,
                                    recall(memory_vectors, user_id, query, k, cid,
                                           "recall" \notin F))
          /\ last' = Obs("recall", F, Len(Mine(memory_vectors)), FALSE, 0,
                         <<"recall">>, 0, 0, 0)
    /\ turns' = turns + 1
    /\ UNCHANGED << auth_vars, store_vars, analytics, session_vars, sidebar_vars, failed_runs,
                    detours >>

NextRecall == Recall

SpecRecall == InitRecall /\ [][NextRecall]_vars

----------------------------------------------------------------------------
(* The estimator on its own: the operations of TokenCounter called with arguments *)

\* the most calls of the estimator in a run
MaxEstimatorCalls == 1
\* the most messages of a counted list
MaxMessages == 2

\* the providers asked about: the three known ones and one TokenCounter has no branch for
EstimatorProviders == Providers \cup {"Cohere"}

\* model names without a pricing entry
UnknownModels ==
    {"unknown-model-xyz", "gpt-4-turbo-preview", "gpt-4.1-mini-2025-04-14",
     "GPT-4O-2024", "o3-pro-2025", "claude-3-5-haiku-latest", "claude-opus-4-1",
     "gemini-2.5-flash-lite-preview", "gemini-2.0-pro-exp", "gemini-pro-latest"}

ModelNames == {e.model : e \in pricing} \cup UnknownModels

Texts == {"", "hi", "hello world", "  ", "what is tla"}
TokenCounts == {0, 1, 500, 1000, 2000}

\* the message lists of up to MaxMessages messages
MessageLists ==
    UNION {[1..n -> {[role |-> "user", content |-> c] : c \in {"", "hi", "hello world"}}] :
              n \in 0..MaxMessages}

InitEstimator ==
    /\ users = <<>>
    /\ bcrypt_truncates = TRUE
    /\ memory_vectors = ForeignRows
    /\ next_id = 3
    /\ db_clock = 2
    /\ summaries = <<>>
    /\ summarized = <<>>
    /\ analytics = <<>>
    /\ user_id = 1
    /\ history = <<>>
    /\ conversation_id = 1
    /\ next_conversation = 3
    /\ total_tokens_used = 0
    /\ total_cost = 0
    /\ provider \in EstimatorProviders
    /\ model \in ModelNames
    /\ use_memory = TRUE
    /\ recall_count = 4
    /\ turns = 0
    /\ failed_runs = 0
    /\ detours = 0
    /\ recalled = NoRecall
    /\ last = Obs("init", {}, 0, FALSE, 0, <<>>, 0, 0, 0)

\* what every action of the estimator leaves alone
estimator_unchanged ==
    UNCHANGED << auth_vars, store_vars, analytics, session_vars, sidebar_vars, failed_runs,
                 detours, recalled >>

\* token_counter.count_tokens(provider, model, text)
CountTokens ==
    /\ turns < MaxEstimatorCalls
    /\ \E text \in Texts, tiktoken_ok \in BOOLEAN :
          last' = [op |-> "count_tokens", text |-> text, tiktoken_ok |-> tiktoken_ok,
                   result |-> count_tokens(provider, model, text, tiktoken_ok)]
    /\ turns' = turns + 1
    /\ estimator_unchanged

\* token_counter.count_messages_tokens(provider, model, messages)
CountMessagesTokens ==
    /\ turns < MaxEstimatorCalls
    /\ \E messages \in MessageLists, tiktoken_ok \in BOOLEAN :
          last' = [op |-> "count_messages_tokens", messages |-> messages,
                   tiktoken_ok |-> tiktoken_ok,
                   result |-> count_messages_tokens(provider, model, messages, tiktoken_ok)]
    /\ turns' = turns + 1
    /\ estimator_unchanged

\* token_counter.estimate_cost(provider, model, input_tokens, output_tokens)
EstimateCost ==
    /\ turns < MaxEstimatorCalls
    /\ \E input_tokens \in TokenCounts, output_tokens \in TokenCounts :
          last' = [op |-> "estimate_cost", input_tokens |-> input_tokens,
                   output_tokens |-> output_tokens,
                   entry |-> model_pricing(provider, model),
                   result |-> estimate_cost(provider, model, input_tokens, output_tokens)]
    /\ turns' = turns + 1
    /\ estimator_unchanged

\* token_counter.get_token_info(provider, model, messages, response_text)
GetTokenInfo ==
    /\ turns < MaxEstimatorCalls
    /\ \E messages \in MessageLists, response_text \in {"", "hello world"},
          tiktoken_ok \in BOOLEAN :
          last' = [op |-> "get_token_info", messages |-> messages,
                   response_text |-> response_text, tiktoken_ok |-> tiktoken_ok,
                   entry |-> model_pricing(provider, model),
                   result |-> get_token_info(provider, model, messages, response_text,
                                             tiktoken_ok)]
    /\ turns' = turns + 1
    /\ estimator_unchanged

NextEstimator == CountTokens \/ CountMessagesTokens \/ EstimateCost \/ GetTokenInfo

SpecEstimator == InitEstimator /\ [][NextEstimator]_vars

----------------------------------------------------------------------------
(* The analytics logger and the key check: core/utils.py *)

\* log_analytics; ok = the client is configured and the insert did not raise
log_analytics(an, uid, p, m, prompt_tokens, completion_tokens, estimated_cost, cid, ok) ==
    IF ok
    THEN Append(an, [user_id |-> uid, provider |-> p, model |-> m,
                     prompt_tokens |-> prompt_tokens,
                     completion_tokens |-> completion_tokens,
                     total_tokens |-> prompt_tokens + completion_tokens,
                     estimated_cost |-> estimated_cost, conversation_id |-> cid])
    ELSE an

\* validate_api_key
validate_api_key(p, api_key) ==
    IF api_key = "" \/ Len(Strip(api_key)) < 10 THEN FALSE
    ELSE IF p = "OpenAI" THEN StartsWith(api_key, "sk-")
    ELSE IF p = "Anthropic" THEN StartsWith(api_key, "sk-ant-")
    ELSE IF p = "Gemini" THEN Len(api_key) > 20
    ELSE TRUE

----------------------------------------------------------------------------
(* The chat page: page_modules/chat.py *)

\* the most messages the model lets a session submit
MaxTurns == 11
\* the most runs of the chat page in which a collaborator call fails
MaxFailedRuns == 1
\* the most uses of the sidebar's controls (Clear Chat, the memory checkbox)
MaxDetours == 2

\* what the user types, the keys in the sidebar and what the provider answers
UserInputs == {"hi"}
ApiKeys == {"", "sk-short", "sk-ant-0123456789abcdef"}
Replies == {"ok"}

system_base == "You are a helpful AI assistant. Be concise and helpful."

RECURSIVE JoinLines(_)
\* "\n".join(lines)
JoinLines(lines) ==
    IF lines = <<>> THEN ""
    ELSE IF Len(lines) = 1 THEN lines[1]
    ELSE lines[1] \o "\n" \o JoinLines(Tail(lines))

\* the system message: the base instructions, extended with the recalled memories if there are any
system_msg(relevant_memories) ==
    IF relevant_memories = <<>> THEN system_base
    ELSE system_base \o "\n\nRelevant context from previous conversation:\n"
         \o JoinLines([i \in 1..Len(relevant_memories) |->
                "Previous " \o relevant_memories[i].role \o ": "
                \o relevant_memories[i].content])

\* (mutant) a window that is the whole transcript
recent_history_all(h) == h

\* history[-10:]
recent_history(h) == LastN(h, 10)

\* the messages sent: the system message, then the user and assistant messages of the window
outbound_messages(system, h) ==
    LET window == SelectSeq(recent_history(h), LAMBDA x : x.role \in {"user", "assistant"})
    IN  << [role |-> "system", content |-> system] >>
        \o [i \in 1..Len(window) |-> [role |-> window[i].role, content |-> window[i].content]]

\* the calls of one turn that can fail; "null_content" is a completion that
\* carries no text (message.content is None)
TurnFaults ==
    {"recall", "tiktoken", "turn_chat", "turn_extract", "null_content",
     "add_user", "add_assistant", "log"}
    \cup CheckFaults

\* (mutant) add_message without its try/except: a failing insert raises into the page
add_message_raises_uncaught(ok) == ~ok

\* whether add_message raises into the page: never, its try/except returns False
add_message_raises(ok) == FALSE

\* the transcript of a turn: the user's message, then the assistant's
with_user(h, user_input) == Append(h, [role |-> "user", content |-> user_input])
with_assistant(h, assistant_content) ==
    Append(h, [role |-> "assistant", content |-> assistant_content])

\* the calls made up to the completion call: the recall, the count of the
\* input tokens and the cost shown with it, the completion
steps_to_chat ==
    (IF use_memory THEN <<"recall">> ELSE <<>>)
    \o <<"count_messages_tokens", "estimate_cost", "chat">>

\* a run of the page that leaves the totals and the tables as they are:
\* h is the transcript after it, errors the number of st.error messages shown
untouched(h, accepted, llm_calls, steps, errors) ==
    [history |-> h, total_tokens_used |-> total_tokens_used,
     total_cost |-> total_cost, mv |-> memory_vectors, sm |-> summaries,
     stored |-> FALSE, covered |-> {}, an |-> analytics, next_id |-> next_id,
     db_clock |-> db_clock, accepted |-> accepted, ret |-> FALSE,
     llm_calls |-> llm_calls, steps |-> steps, errors |-> errors,
     tokens |-> 0, cost |-> 0]

\* the turn has run to st.rerun(): check is the outcome of the auto-summary check
turn_completed(h, tokens, cost, an, id, now, steps, check) ==
    [history |-> h, total_tokens_used |-> total_tokens_used + tokens,
     total_cost |-> total_cost + cost, mv |-> check.mv, sm |-> check.sm,
     stored |-> check.stored, covered |-> check.covered, an |-> an,
     next_id |-> id, db_clock |-> now, accepted |-> TRUE, ret |-> TRUE,
     llm_calls |-> 1 + check.llm_calls, steps |-> steps \o check.steps,
     errors |-> 0, tokens |-> tokens, cost |-> cost]

\* an add_message that raised: the except branch shows the error after the
\* totals, the transcript and the rows written so far were updated
turn_interrupted(h, tokens, cost, mv, id, now, steps) ==
    [untouched(h, TRUE, 1, steps, 1) EXCEPT
        !.total_tokens_used = total_tokens_used + tokens,
        !.total_cost = total_cost + cost,
        !.mv = mv, !.next_id = id, !.db_clock = now,
        !.tokens = tokens, !.cost = cost]

\* no auto-summary check: memory is switched off
no_check ==
    [mv |-> memory_vectors, sm |-> summaries, ret |-> FALSE, llm_calls |-> 0,
     covered |-> {}, stored |-> FALSE, steps |-> <<>>]

\* "Store in memory", "Log analytics" and "Check for auto-summary"
store_and_log(user_input, F, assistant_content, input_tokens, output_tokens, estimated_cost) ==
    LET uid == user_id
        cid == conversation_id
        h == with_assistant(with_user(history, user_input), assistant_content)
        tokens == input_tokens + output_tokens
        user_ok == "add_user" \notin F
        assistant_ok == "add_assistant" \notin F
        mv1 == add_message(memory_vectors, next_id, db_clock, uid, "user",
                           user_input, cid, user_ok)
        id1 == IF user_ok THEN next_id + 1 ELSE next_id
        now1 == IF user_ok THEN db_clock + 1 ELSE db_clock
        mv2 == add_message(mv1, id1, now1, uid, "assistant", assistant_content,
                           cid, assistant_ok)
        id2 == IF assistant_ok THEN id1 + 1 ELSE id1
        now2 == IF assistant_ok THEN now1 + 1 ELSE now1
        steps == steps_to_chat \o <<"extract_content", "count_tokens", "estimate_cost">>
        an == log_analytics(analytics, uid, provider, model, input_tokens,
                            output_tokens, estimated_cost, cid, "log" \notin F)
    IN  IF ~use_memory
        THEN turn_completed(h, tokens, estimated_cost, an, next_id, db_clock,
                            steps \o <<"log_analytics">>, no_check)
        ELSE IF add_message_raises(user_ok)
        THEN turn_interrupted(h, tokens, estimated_cost, memory_vectors, next_id,
                              db_clock, steps \o <<"add_message user">>)
        ELSE IF add_message_raises(assistant_ok)
        THEN turn_interrupted(h, tokens, estimated_cost, mv1, id1, now1,
                              steps \o <<"add_message user", "add_message assistant">>)
        ELSE turn_completed(h, tokens, estimated_cost, an, id2, now2,
                            steps \o <<"add_message user", "add_message assistant",
                                       "log_analytics">>,
                            pruning_check(mv2, summaries, uid, cid, provider, F))

\* "Calculate cost" and "Update session totals"
cost_turn(user_input, F, assistant_content, input_tokens, output_tokens) ==
    store_and_log(user_input, F, assistant_content, input_tokens, output_tokens,
                  estimate_cost(provider, model, input_tokens, output_tokens))

\* "Count output tokens"
count_output(user_input, F, assistant_content, input_tokens) ==
    cost_turn(user_input, F, assistant_content, input_tokens,
              count_tokens(provider, model, assistant_content, "tiktoken" \notin F))

\* "Add memory context if enabled"
relevant_memories(user_input, F) ==
    IF use_memory
    THEN recall(memory_vectors, user_id, user_input, recall_count, conversation_id,
                "recall" \notin F)
    ELSE <<>>

\* "Prepare messages for API": the list the turn counts and hands to the bridge
messages_of(user_input, F) ==
    outbound_messages(system_msg(relevant_memories(user_input, F)),
                      with_user(history, user_input))

\* "Count input tokens"
input_tokens_of(user_input, F) ==
    count_messages_tokens(provider, model, messages_of(user_input, F),
                          "tiktoken" \notin F)

\* a submitted message: everything show_chat_page does with it, as a function
\* of the state before, the key, the provider's answer and the failing calls F
handle_input(user_input, api_key, reply, F) ==
    IF ~(user_input # "" /\ api_key # "" /\ validate_api_key(provider, api_key))
    THEN \* "Please enter your API key in the sidebar" / "Please enter a valid API key"
         untouched(history, FALSE, 0, <<>>, IF user_input # "" THEN 1 ELSE 0)
    ELSE IF chat_raises(provider, "turn_chat" \in F)
    THEN \* "Error generating response"
         untouched(with_user(history, user_input), TRUE, 1, steps_to_chat, 1)
    ELSE IF count_tokens_raises(extract_content_none(provider, "null_content" \in F))
    THEN \* "Error generating response": counting the tokens of None raised
         untouched(with_user(history, user_input), TRUE, 1,
                   steps_to_chat \o <<"extract_content", "count_tokens">>, 1)
    ELSE count_output(user_input, F,
                      extract_content(provider, reply, "turn_extract" \in F),
                      input_tokens_of(user_input, F))

\* what a run of the chat input handler did: the observation of its calls,
\* the message submitted, the list it prepared and the request the bridge made
TurnObs(op, F, n, res, user_input, messages, request) ==
    [op |-> op, F |-> F, n |-> n, ret |-> res.ret, llm_calls |-> res.llm_calls,
     steps |-> res.steps, errors |-> res.errors, tokens |-> res.tokens,
     cost |-> res.cost, user_input |-> user_input, messages |-> messages,
     request |-> request]

\* the user submits a message in the chat input
SubmitMessage ==
    /\ user_id # None
    /\ turns < MaxTurns
    /\ \E user_input \in UserInputs, api_key \in ApiKeys, reply \in Replies,
          F \in FaultSets(TurnFaults) :
          /\ F # {} => (failed_runs < MaxFailedRuns /\ validate_api_key(provider, api_key))
          /\ \E res \in {handle_input(user_input, api_key, reply, F)} :
                 /\ history' = res.history
                 /\ total_tokens_used' = res.total_tokens_used
                 /\ total_cost' = res.total_cost
                 /\ memory_vectors' = res.mv
                 /\ summaries' = res.sm
                 /\ summarized' = IF res.stored THEN Append(summarized, res.covered)
                                  ELSE summarized
                 /\ analytics' = res.an
                 /\ next_id' = res.next_id
                 /\ db_clock' = res.db_clock
                 /\ turns' = IF res.accepted THEN turns + 1 ELSE turns
                 /\ failed_runs' = IF F # {} /\ res.accepted THEN failed_runs + 1
                                   ELSE failed_runs
                 /\ recalled' = IF res.accepted /\ use_memory
                                 THEN RecallCall(user_id, user_input, recall_count,
                                                 conversation_id, "recall" \notin F,
                                                 relevant_memories(user_input, F))
                                 ELSE recalled
                 /\ \E messages \in {IF res.accepted THEN messages_of(user_input, F)
                                       ELSE <<>>} :
                       last' = TurnObs(IF res.accepted THEN "turn" ELSE "rejected",
                                       IF res.accepted THEN F ELSE {},
                                       Len(Mine(memory_vectors)), res, user_input, messages,
                                       IF res.accepted THEN chat_request(provider, messages)
                                       ELSE NoRequest)
    /\ UNCHANGED << auth_vars, user_id, conversation_id, next_conversation, sidebar_vars, detours >>

\* (mutant) a Clear Chat that starts the usage totals over as well
ClearChat_totals ==
    /\ user_id # None
    /\ detours < MaxDetours
    /\ history # <<>>
    /\ history' = <<>>
    /\ conversation_id' = next_conversation
    /\ next_conversation' = next_conversation + 1
    /\ total_tokens_used' = 0
    /\ total_cost' = 0
    /\ detours' = detours + 1
    /\ last' = Obs("clear", {}, Len(Mine(memory_vectors)), FALSE, 0, <<>>, 0, 0, 0)
    /\ UNCHANGED << auth_vars, store_vars, analytics, user_id, sidebar_vars, turns, failed_runs,
                    recalled >>

\* the "Clear Chat" button, shown while the transcript is not empty
ClearChat ==
    /\ user_id # None
    /\ detours < MaxDetours
    /\ history # <<>>
    /\ history' = <<>>
    /\ conversation_id' = next_conversation
    /\ next_conversation' = next_conversation + 1
    /\ detours' = detours + 1
    /\ last' = Obs("clear", {}, Len(Mine(memory_vectors)), FALSE, 0, <<>>, 0, 0, 0)
    /\ UNCHANGED << auth_vars, store_vars, analytics, user_id, total_tokens_used, total_cost,
                    sidebar_vars, turns, failed_runs, recalled >>

\* the "Use conversation memory" checkbox
ToggleMemory ==
    /\ user_id # None
    /\ detours < MaxDetours
    /\ use_memory' = ~use_memory
    /\ detours' = detours + 1
    /\ last' = Obs("toggle", {}, Len(Mine(memory_vectors)), FALSE, 0, <<>>, 0, 0, 0)
    /\ UNCHANGED << auth_vars, store_vars, analytics, session_vars, provider, model, recall_count,
                    turns, failed_runs, recalled >>

\* a logged-in user on the chat page before the first message: the provider
\* is the one picked in the sidebar, its model the first of the list
Init ==
    /\ users = <<>>
    /\ bcrypt_truncates = TRUE
    /\ memory_vectors = ForeignRows
    /\ next_id = 3
    /\ db_clock = 2
    /\ summaries = <<>>
    /\ summarized = <<>>
    /\ analytics = <<>>
    /\ user_id = 1
    /\ history = <<>>
    /\ conversation_id = 3
    /\ next_conversation = 4
    /\ total_tokens_used = 0
    /\ total_cost = 0
    /\ provider \in Providers
    /\ model = get_default_model(provider)
    /\ use_memory = TRUE
    /\ recall_count = 4
    /\ turns = 0
    /\ failed_runs = 0
    /\ detours = 0
    /\ recalled = NoRecall
    /\ last = Obs("init", {}, 0, FALSE, 0, <<>>, 0, 0, 0)

Next == SubmitMessage \/ ClearChat \/ ToggleMemory

Spec == Init /\ [][Next]_vars

----------------------------------------------------------------------------
(* Passwords, registration and login: core/auth.py *)

\* the most calls of the auth functions in one run of the model
MaxAuthCalls == 2
\* the values gensalt can return, as the model tells them apart
MaxSalts == 2

\* bcrypt looks at no more than the first 72 bytes of a password
MaxPasswordBytes == 72
\* register_user: len(password.strip()) < 6 is refused
MinPasswordLength == 6

RECURSIVE Filler(_)
\* n bytes of password
Filler(n) == IF n = 0 THEN "" ELSE "a" \o Filler(n - 1)

\* the passwords and usernames the calls are made with: short ones, padded
\* ones, blank ones, and two of 73 bytes that differ in the last byte only
Passwords ==
    {"", "  ", "test", "secret1", " secret1", "secret2",
     Filler(MaxPasswordBytes) \o "x", Filler(MaxPasswordBytes) \o "y"}
Usernames == {"", "alice", " alice", "bob"}
Salts == 1..MaxSalts

\* what bcrypt hashes of a password (utf-8 bytes, one per character here)
bcrypt_key(password) == SubSeq(password, 1, Min(Len(password), MaxPasswordBytes))

\* bcrypt.hashpw and bcrypt.checkpw raise ValueError on a password of more
\* than 72 bytes in the builds that do not truncate
bcrypt_raises(password, truncates) == ~truncates /\ Len(password) > MaxPasswordBytes

\* hash_password raises: "Password cannot be empty", or bcrypt refuses
hash_password_raises(password, truncates) ==
    password = "" \/ bcrypt_raises(password, truncates)

\* hash_password: the salt and the digest of the salt and the bytes bcrypt uses
hash_password(password, salt) == [salt |-> salt, digest |-> << salt, bcrypt_key(password) >>]

\* verify_password raises: bcrypt.checkpw refuses the password
verify_password_raises(password, truncates) ==
    password # "" /\ bcrypt_raises(password, truncates)

\* verify_password: the password hashed with the salt of hashed gives hashed
verify_password(password, hashed) ==
    IF password = "" THEN FALSE
    ELSE hashed = hash_password(password, hashed.salt)

\* the calls of register_user and login_user that can fail
AuthFaults == {"client", "select", "insert"}

\* the rows of table users with the username
UsersNamed(us, username) == SelectSeq(us, LAMBDA u : u.username = username)

\* the outcome of a call that stores nothing
auth_failed(us, error) == [users |-> us, success |-> FALSE, error |-> error]

\* register_user, from "Clean up inputs" on; given_username and
\* given_password are ghost columns: the arguments as they were passed
register_cleaned(us, username, password, given, salt, F, truncates) ==
    IF F \cap {"client", "select"} # {} THEN auth_failed(us, "exception")
    ELSE IF UsersNamed(us, username) # <<>> THEN auth_failed(us, "Username already exists")
    ELSE IF hash_password_raises(password, truncates) THEN auth_failed(us, "exception")
    ELSE IF "insert" \in F THEN auth_failed(us, "exception")
    ELSE [users |-> Append(us, [id |-> Len(us) + 1, username |-> username,
                                password_hash |-> hash_password(password, salt),
                                given_username |-> given.username,
                                given_password |-> given.password]),
          success |-> TRUE, error |-> ""]

\* register_user
register_user(us, username, password, salt, F, truncates) ==
    IF Strip(username) = "" THEN auth_failed(us, "Username is required")
    ELSE IF Strip(password) = "" THEN auth_failed(us, "Password is required")
    ELSE IF Len(Strip(password)) < MinPasswordLength
    THEN auth_failed(us, "Password must be at least 6 characters long")
    ELSE register_cleaned(us, Strip(username), Strip(password),
                          [username |-> username, password |-> password],
                          salt, F, truncates)

\* login_user, from "Clean up inputs" on
login_cleaned(us, username, password, F, truncates) ==
    IF F \cap {"client", "select"} # {} THEN auth_failed(us, "exception")
    ELSE IF UsersNamed(us, username) = <<>> THEN auth_failed(us, "User not found")
    ELSE IF verify_password_raises(password, truncates) THEN auth_failed(us, "exception")
    ELSE IF verify_password(password, UsersNamed(us, username)[1].password_hash)
    THEN [users |-> us, success |-> TRUE, error |-> ""]
    ELSE auth_failed(us, "Invalid password")

\* login_user
login_user(us, username, password, F, truncates) ==
    IF Strip(username) = "" THEN auth_failed(us, "Username is required")
    ELSE IF Strip(password) = "" THEN auth_failed(us, "Password is required")
    ELSE login_cleaned(us, Strip(username), Strip(password), F, truncates)

\* no user yet, either kind of bcrypt installed
InitAuth ==
    /\ users = <<>>
    /\ bcrypt_truncates \in BOOLEAN
    /\ memory_vectors = ForeignRows
    /\ next_id = 3
    /\ db_clock = 2
    /\ summaries = <<>>
    /\ summarized = <<>>
    /\ analytics = <<>>
    /\ user_id = None
    /\ history = <<>>
    /\ conversation_id = None
    /\ next_conversation = 3
    /\ total_tokens_used = 0
    /\ total_cost = 0
    /\ provider = "OpenAI"
    /\ model = get_default_model("OpenAI")
    /\ use_memory = TRUE
    /\ recall_count = 3
    /\ turns = 0
    /\ failed_runs = 0
    /\ detours = 0
    /\ recalled = NoRecall
    /\ last = [op |-> "none"]

\* what a call of an auth function leaves alone
auth_unchanged ==
    UNCHANGED << store_vars, analytics, session_vars, sidebar_vars, failed_runs,
                 detours, recalled, bcrypt_truncates >>

\* verify_password(candidate, hash_password(password)), as the tests call it
HashAndVerify ==
    /\ turns < MaxAuthCalls
    /\ \E password \in Passwords, candidate \in Passwords, salt \in Salts :
          last' = [op |-> "verify_password", password |-> password,
                   candidate |-> candidate,
                   raised |-> \/ hash_password_raises(password, bcrypt_truncates)
                              \/ verify_password_raises(candidate, bcrypt_truncates),
                   result |-> /\ ~hash_password_raises(password, bcrypt_truncates)
                              /\ ~verify_password_raises(candidate, bcrypt_truncates)
                              /\ verify_password(candidate, hash_password(password, salt))]
    /\ turns' = turns + 1
    /\ users' = users
    /\ auth_unchanged

\* a call of register_user
RegisterUser ==
    /\ turns < MaxAuthCalls
    /\ \E username \in Usernames, password \in Passwords, salt \in Salts,
          F \in FaultSets(AuthFaults) :
          \E res \in {register_user(users, username, password, salt, F, bcrypt_truncates)} :
             /\ users' = res.users
             /\ last' = [op |-> "register_user", username |-> username,
                         password |-> password, F |-> F,
                         success |-> res.success, error |-> res.error]
    /\ turns' = turns + 1
    /\ auth_unchanged

\* a call of login_user
LoginUser ==
    /\ turns < MaxAuthCalls
    /\ \E username \in Usernames, password \in Passwords, F \in FaultSets(AuthFaults) :
          \E res \in {login_user(users, username, password, F, bcrypt_truncates)} :
             /\ users' = res.users
             /\ last' = [op |-> "login_user", username |-> username,
                         password |-> password, F |-> F,
                         success |-> res.success, error |-> res.error]
    /\ turns' = turns + 1
    /\ auth_unchanged

NextAuth == HashAndVerify \/ RegisterUser \/ LoginUser

SpecAuth == InitAuth /\ [][NextAuth]_vars

----------------------------------------------------------------------------
(* Login, logout and the session timeout around the chat page: app.py, pages/login.py *)

\* the most messages a session of this part of the model submits
MaxSessionTurns == 2
\* the most logins, logouts and timeouts of a session
MaxSessionEvents == 4

\* two registered users, alice (id 1) and bob (id 2)
RegisteredUsers ==
    register_user(register_user(<<>>, "alice", "secret1", 1, {}, TRUE).users,
                  "bob", "secret2", 1, {}, TRUE).users

\* the credentials typed into the login form
LoginNames == {"alice", "bob"}
LoginPasswords == {"secret1", "secret2"}

\* a browser session before anyone has logged in: no user, no chat state
InitSession ==
    /\ users = RegisteredUsers
    /\ bcrypt_truncates = TRUE
    /\ memory_vectors = <<>>
    /\ next_id = 1
    /\ db_clock = 1
    /\ summaries = <<>>
    /\ summarized = <<>>
    /\ analytics = <<>>
    /\ user_id = None
    /\ history = <<>>
    /\ conversation_id = None
    /\ next_conversation = 3
    /\ total_tokens_used = 0
    /\ total_cost = 0
    /\ provider \in Providers
    /\ model = get_default_model(provider)
    /\ use_memory = TRUE
    /\ recall_count = 4
    /\ turns = 0
    /\ failed_runs = 0
    /\ detours = 0
    /\ recalled = NoRecall
    /\ last = Obs("init", {}, 0, FALSE, 0, <<>>, 0, 0, 0)

\* show_chat_page, "Initialize session state", for conversation_id: a fresh
\* id when the session has none
initial_conversation_id == IF conversation_id = None THEN next_conversation ELSE conversation_id

\* the login form submitted: on success the session takes the user's id and
\* the rerun shows the chat page, which initializes what the session lacks
\* (an absent history is the empty one, absent totals are 0)
Login ==
    /\ user_id = None
    /\ detours < MaxSessionEvents
    /\ \E username \in LoginNames, password \in LoginPasswords :
          \E res \in {login_user(users, username, password, {}, bcrypt_truncates)} :
             /\ user_id' = IF res.success THEN UsersNamed(users, username)[1].id ELSE None
             /\ conversation_id' = IF res.success THEN initial_conversation_id
                                    ELSE conversation_id
             /\ next_conversation' = IF res.success /\ conversation_id = None
                                      THEN next_conversation + 1 ELSE next_conversation
             /\ last' = Obs("login", {}, 0, res.success, 0, <<>>,
                            IF res.success THEN 0 ELSE 1, 0, 0)
    /\ detours' = detours + 1
    /\ UNCHANGED << auth_vars, store_vars, analytics, history, total_tokens_used,
                    total_cost, sidebar_vars, turns, failed_runs, recalled >>

\* the "Logout" page: the user fields are reset and history is deleted
Logout ==
    /\ user_id # None
    /\ detours < MaxSessionEvents
    /\ user_id' = None
    /\ history' = <<>>
    /\ detours' = detours + 1
    /\ last' = Obs("logout", {}, 0, FALSE, 0, <<>>, 0, 0, 0)
    /\ UNCHANGED << auth_vars, store_vars, analytics, conversation_id, next_conversation,
                    total_tokens_used, total_cost, sidebar_vars, turns, failed_runs,
                    recalled >>

\* a rerun later than the session timeout after the login: the user fields
\* are reset and "Session expired" is shown
SessionTimeout ==
    /\ user_id # None
    /\ detours < MaxSessionEvents
    /\ user_id' = None
    /\ detours' = detours + 1
    /\ last' = Obs("timeout", {}, 0, FALSE, 0, <<>>, 0, 0, 0)
    /\ UNCHANGED << auth_vars, store_vars, analytics, history, conversation_id,
                    next_conversation, total_tokens_used, total_cost, sidebar_vars,
                    turns, failed_runs, recalled >>

\* a message submitted on the chat page by the user logged in
SessionTurn ==
    /\ turns < MaxSessionTurns
    /\ SubmitMessage

NextSession == Login \/ Logout \/ SessionTimeout \/ SessionTurn

SpecSession == InitSession /\ [][NextSession]_vars

----------------------------------------------------------------------------
(* Pruning: claims C1 to C5 *)

\* the runs that hold a pruning pass or the check that guards it
PassOps == {"summarize_and_prune", "pruning_check"}

DistinctCreatedAt(s) ==
    \A i, j \in 1..Len(s) : i # j => s[i].created_at # s[j].created_at

\* C1: a pass in which the summarization call or the write of the summary
\* fails deletes nothing: every row of the conversation is still stored after it
C1_FailedPassDeletesNothing ==
    [][ (last'.op \in PassOps /\ last'.F \cap {"chat", "insert"} # {})
        => Ids(Mine(memory_vectors)) \subseteq Ids(Mine(memory_vectors')) ]_vars

\* whether 10 rows of greatest created_at of the sequence before (all of them
\* when it holds fewer) are among the rows after, whichever way ties are broken
TenMostRecentKept(before, after) ==
    LET sorted == OrderByCreatedAt(before)
        k == Min(KeepLast, Len(sorted))
        t == sorted[Len(sorted) - k + 1].created_at
        newer == {i \in 1..Len(sorted) : sorted[i].created_at > t}
        tied == {i \in 1..Len(sorted) : sorted[i].created_at = t}
    IN  k = 0 \/
        /\ \A i \in newer : sorted[i].id \in Ids(after)
        /\ Cardinality({i \in tied : sorted[i].id \in Ids(after)})
              >= k - Cardinality(newer)

\* C2: after any pass the 10 rows of the conversation with the greatest
\* created_at at its start are all still stored
C2_TenMostRecentSurvive ==
    [][ last'.op \in PassOps
        => TenMostRecentKept(Mine(memory_vectors), Mine(memory_vectors')) ]_vars

\* C3: on 20..100 rows of distinct created_at, a pass in which no call fails
\* writes exactly one summary, of messages_count N-10, and leaves exactly the
\* 10 most recent rows
C3_SuccessfulPass ==
    [][ LET before == Mine(memory_vectors)
            n == Len(before)
        IN  (/\ last'.op \in PassOps
             /\ last'.F = {}
             /\ last'.ret
             /\ n >= MinMessagesToPrune /\ n <= FetchLimit
             /\ DistinctCreatedAt(before))
            => /\ Len(summaries') = Len(summaries) + 1
               /\ SubSeq(summaries', 1, Len(summaries)) = summaries
               /\ summaries'[Len(summaries')].messages_count = n - KeepLast
               /\ summaries'[Len(summaries')].user_id = user_id
               /\ summaries'[Len(summaries')].conversation_id = conversation_id
               /\ Mine(memory_vectors') = LastN(OrderByCreatedAt(before), KeepLast)
               /\ Len(Mine(memory_vectors')) = KeepLast ]_vars

\* C3 (witness): a pass on 25 rows wrote a summary of 15 and left 10
C3_Witness ==
    /\ last.op = "summarize_and_prune" /\ last.F = {} /\ last.ret
    /\ last.n = 25
    /\ Len(summaries) = 1 /\ summaries[1].messages_count = 15
    /\ Len(Mine(memory_vectors)) = 10

\* C4: with fewer than 20 rows stored the check writes nothing, deletes
\* nothing and makes no completion call
C4_BelowThresholdNoEffect ==
    [][ (last'.op \in PassOps /\ Len(Mine(memory_vectors)) < MinMessagesToPrune)
        => /\ memory_vectors' = memory_vectors
           /\ summaries' = summaries
           /\ last'.llm_calls = 0
           /\ ~last'.ret ]_vars

\* C4 (witness): the check ran on 19 rows and 19 rows are stored
C4_Witness ==
    /\ last.op = "pruning_check" /\ last.F = {} /\ last.n = 19
    /\ Len(Mine(memory_vectors)) = 19
    /\ summaries = <<>>

\* C5: no row is counted in two summaries: the summary rows of a conversation
\* are built from pairwise disjoint sets of rows
C5_SummariesDisjoint ==
    \A i, j \in 1..Len(summarized) :
        (i # j /\ summaries[i].user_id = summaries[j].user_id
               /\ summaries[i].conversation_id = summaries[j].conversation_id)
            => summarized[i] \cap summarized[j] = {}

----------------------------------------------------------------------------
(* The turn: claims C6 to C9 *)

\* the calls a run made
Calls(o) == {o.steps[i] : i \in 1..Len(o.steps)}

\* how often a run made the call
TimesCalled(o, call) == Cardinality({i \in 1..Len(o.steps) : o.steps[i] = call})

\* the completion call of the turn returned a response
CompletionSucceeded(o) == o.op = "turn" /\ "extract_content" \in Calls(o)

\* C6: a turn whose completion call fails shows one error and does nothing
\* else: the transcript gains the user's message only, the totals, the
\* memory records, the summaries and the usage records are as before, and
\* neither the analytics logger nor the pruning check is called
C6_FailedCompletionAborts ==
    [][ (last'.op = "turn" /\ "turn_chat" \in last'.F)
        => /\ last'.errors = 1
           /\ Len(history') = Len(history) + 1
           /\ SubSeq(history', 1, Len(history)) = history
           /\ history'[Len(history')].role = "user"
           /\ total_tokens_used' = total_tokens_used
           /\ total_cost' = total_cost
           /\ memory_vectors' = memory_vectors
           /\ summaries' = summaries
           /\ analytics' = analytics
           /\ Calls(last') \cap {"add_message user", "add_message assistant",
                                 "log_analytics", "count_messages",
                                 "summarize_and_prune"} = {} ]_vars

\* C6 (witness): the completion call of a turn failed in a conversation of
\* which messages are stored, and the error was shown
C6_Witness ==
    /\ last.op = "turn" /\ last.F = {"turn_chat"} /\ last.errors = 1
    /\ last.n >= 2
    /\ history[Len(history)].role = "user"
    /\ use_memory

\* C7: every turn whose completion call returned calls the analytics logger
\* exactly once
C7_UsageRecordEmittedOnce ==
    CompletionSucceeded(last) => TimesCalled(last, "log_analytics") = 1

\* the calls after the completion whose failure the turn is to survive
LaterFaults == {"add_user", "add_assistant", "log", "count"} \cup PruneFaults

C9_TotalsMonotonic ==
    [][ /\ total_tokens_used' >= total_tokens_used
        /\ total_cost' >= total_cost
        /\ (last'.op = "turn" /\ last'.ret)
              => \E user_input \in UserInputs, reply \in Replies :
                    LET F == last'.F
                        sent == input_tokens_of(user_input, F)
                        got == count_tokens(provider, model,
                                   extract_content(provider, reply, "turn_extract" \in F),
                                   "tiktoken" \notin F)
                    IN  /\ sent + got > 0
                        /\ total_tokens_used' = total_tokens_used + sent + got
                        /\ total_cost' = total_cost + estimate_cost(provider, model, sent, got)
                        /\ estimate_cost(provider, model, sent, got) >= 0 ]_vars

\* C9 (witness): a turn completed after Clear Chat and added to totals that
\* Clear Chat had left standing
C9_Witness ==
    /\ last.op = "turn" /\ last.ret
    /\ conversation_id > 3
    /\ Len(history) = 2
    /\ last.tokens > 0
    /\ total_tokens_used > last.tokens

----------------------------------------------------------------------------
(* Recall: claim C10 *)

\* the rows a recall could return: those of the user and, when one is given,
\* of the conversation
InScope(call, mv) ==
    SelectSeq(mv, LAMBDA r :
        /\ r.user_id = call.user_id
        /\ (call.conversation_id = None \/ r.conversation_id = call.conversation_id))

\* the similarity of a piece of text to the query of the call, in tenths
SimilarityTo(call, content) == Similarity(Embedding(content), Embedding(call.query))

\* the rows in scope at or above the threshold, and those below it
Qualifying(call, mv) ==
    {r.id : r \in {x \in {InScope(call, mv)[i] : i \in 1..Len(InScope(call, mv))} :
                       SimilarityTo(call, x.content) >= MatchThreshold}}
Below(call, mv) ==
    {r.id : r \in {x \in {InScope(call, mv)[i] : i \in 1..Len(InScope(call, mv))} :
                       SimilarityTo(call, x.content) < MatchThreshold}}

\* C10: recall returns at most k matches, each a stored row of the given
\* user and, when one is given, of the given conversation, each of
\* similarity 0.7 or more to the query, in order of descending similarity;
\* asked for 4 of a store with 2 rows at or above 0.7 and 3 below, a recall
\* that goes through returns exactly the 2
C10_RecallBounded ==
    last.op = "recall" =>
        LET res == recalled.result
        IN  /\ Len(res) <= recalled.k
            /\ \A i \in 1..Len(res) :
                  /\ res[i].id \in Qualifying(recalled, memory_vectors)
                  /\ res[i].user_id = recalled.user_id
                  /\ recalled.conversation_id # None
                        => res[i].conversation_id = recalled.conversation_id
                  /\ SimilarityTo(recalled, res[i].content) >= MatchThreshold
                  /\ res[i].similarity = SimilarityTo(recalled, res[i].content)
            /\ \A i, j \in 1..Len(res) :
                  i < j => /\ res[i].similarity >= res[j].similarity
                           /\ res[i].id # res[j].id
            /\ (/\ recalled.ok /\ recalled.k = 4
                 /\ Cardinality(Qualifying(recalled, memory_vectors)) = 2
                 /\ Cardinality(Below(recalled, memory_vectors)) = 3)
                  => {res[i].id : i \in 1..Len(res)} = Qualifying(recalled, memory_vectors)

\* C10 (witness): a recall of k=4 in a conversation with 2 rows at or above
\* the threshold and 3 below returned the 2, the closer one first
C10_Witness ==
    /\ last.op = "recall" /\ recalled.ok /\ recalled.k = 4
    /\ recalled.conversation_id # None
    /\ Cardinality(Qualifying(recalled, memory_vectors)) = 2
    /\ Cardinality(Below(recalled, memory_vectors)) = 3
    /\ Len(recalled.result) = 2
    /\ recalled.result[1].similarity > recalled.result[2].similarity

----------------------------------------------------------------------------
(* The estimator: claims C11 to C17 *)

RECURSIVE ContentTokens(_, _)
\* the sum over i <= n of count_tokens of the content of the i-th message of the call
ContentTokens(o, n) ==
    IF n = 0 THEN 0
    ELSE ContentTokens(o, n - 1)
         + count_tokens(provider, model, o.messages[n].content, o.tiktoken_ok)

C12_EmptyTextZero ==
    (last.op = "count_tokens" /\ last.text = "") => last.result = 0

\* the exact pricing entries of the model asked about
ExactEntries == {e \in pricing : e.provider = provider /\ e.model = model}

\* C13: for a model with an exact pricing entry estimate_cost is
\* input_tokens/1000 x the entry's input rate + output_tokens/1000 x its
\* output rate, the entry being the exact one and no family's: gpt-4-turbo
\* with 1000 and 1000 tokens costs 0.01 + 0.03 dollars
C13_ExactEntryPrices ==
    (last.op = "estimate_cost" /\ ExactEntries # {})
        => /\ last.entry = ExactEntries
           /\ \A e \in ExactEntries :
                 last.result = last.input_tokens * e.input + last.output_tokens * e.output
           /\ (/\ provider = "OpenAI" /\ model = "gpt-4-turbo"
                /\ last.input_tokens = 1000 /\ last.output_tokens = 1000)
                 => last.result = 4 * 1600000

\* C13 (witness): gpt-4-turbo priced at 0.04 dollars for 1000 and 1000 tokens
C13_Witness ==
    /\ last.op = "estimate_cost" /\ provider = "OpenAI" /\ model = "gpt-4-turbo"
    /\ last.input_tokens = 1000 /\ last.output_tokens = 1000
    /\ last.result = 4 * 1600000

\* C14: estimate_cost is not negative, and it is not below the cost of any
\* smaller input or output token count of the same provider and model
C14_CostMonotonic ==
    last.op = "estimate_cost"
        => /\ last.result >= 0
           /\ \A a \in TokenCounts, b \in TokenCounts :
                 (a <= last.input_tokens /\ b <= last.output_tokens)
                    => estimate_cost(provider, model, a, b) <= last.result

\* C14 (witness): a model priced through its family, with a cost above that of fewer tokens
C14_Witness ==
    /\ last.op = "estimate_cost" /\ ExactEntries = {} /\ last.entry # {}
    /\ last.input_tokens = 1000 /\ last.output_tokens = 2000
    /\ last.result > estimate_cost(provider, model, 1000, 1000)
    /\ estimate_cost(provider, model, 1000, 1000) > estimate_cost(provider, model, 500, 1000)

\* C15: a model without an exact entry is never priced with an entry whose
\* name is a proper part of the name of another entry of the provider that
\* the model name contains as well: the most specific family wins
C15_MostSpecificFamily ==
    (last.op = "estimate_cost" /\ ExactEntries = {})
        => \A chosen \in last.entry :
              ~ \E e \in pricing :
                    /\ e.provider = provider
                    /\ e.model # chosen.model
                    /\ Contains(Lower(model), e.model)
                    /\ Contains(e.model, chosen.model)

\* C16: a model with neither an exact entry nor a family match costs 0, and
\* its token info says model_supported false and cost_accuracy "estimated"
C16_UnknownPricingZero ==
    /\ (last.op = "estimate_cost" /\ last.entry = {}) => last.result = 0
    /\ (last.op = "get_token_info" /\ last.entry = {})
          => /\ last.result.estimated_cost = 0
             /\ ~last.result.model_supported
             /\ last.result.cost_accuracy = "estimated"

\* C16 (witness): the token info of OpenAI / unknown-model-xyz for a list of
\* two messages and a response: tokens counted, cost 0, flagged
C16_Witness ==
    /\ last.op = "get_token_info" /\ provider = "OpenAI" /\ model = "unknown-model-xyz"
    /\ Len(last.messages) = 2 /\ last.response_text # ""
    /\ last.result.total_tokens > 0
    /\ last.result.estimated_cost = 0
    /\ last.result.cost_accuracy = "estimated"

\* C17: token info says cost_accuracy "accurate" only for a model with an
\* exact pricing entry
C17_AccurateOnlyIfExact ==
    (last.op = "get_token_info" /\ last.result.cost_accuracy = "accurate")
        => ExactEntries # {}

----------------------------------------------------------------------------
(* The estimator called by the turn: claim C18 *)

\* the estimator operations the chat page calls
EstimatorCalls == {"count_messages_tokens", "count_tokens", "estimate_cost"}

\* C18: no estimator operation raises to its caller: a turn that showed an
\* error was not stopped by a call of count_messages_tokens, count_tokens or
\* estimate_cost (the call that raised is the last one the turn made)
C18_EstimatorNeverRaises ==
    (last.op = "turn" /\ last.errors > 0)
        => last.steps[Len(last.steps)] \notin EstimatorCalls

----------------------------------------------------------------------------
(* Passwords: claim C19 *)

\* the users registered with exactly this username argument
RegisteredAs(username) == SelectSeq(users, LAMBDA u : u.given_username = username)

\* C19: every non-empty password verifies against its own hash; and when no
\* call to the backend fails, a login with the username and the password a
\* user was registered with succeeds, and a login with that username and any
\* other password is refused
C19_PasswordRoundTrip ==
    /\ (/\ last.op = "verify_password"
         /\ last.password # "" /\ last.candidate = last.password)
          => (~last.raised /\ last.result)
    /\ (last.op = "login_user" /\ last.F = {} /\ RegisteredAs(last.username) # <<>>)
          => (last.success <=> last.password = RegisteredAs(last.username)[1].given_password)

----------------------------------------------------------------------------
(* The auto-summary check of the turn: claim C20 *)

\* the records of the conversation stored when the turn o, run from the
\* state before it, reaches its check: those before the turn and the ones
\* its add_message calls wrote
StoredAtCheck(o) ==
    Len(Mine(memory_vectors)) + 2 - Cardinality(o.F \cap {"add_user", "add_assistant"})

\* what count_messages reports to the check of the turn o: 0 when its query fails
ReportedAtCheck(o) == IF "count" \in o.F THEN 0 ELSE StoredAtCheck(o)

\* the turn o ran to its end with memory on, so its check was evaluated
CheckEvaluated(o) == o.op = "turn" /\ o.ret /\ use_memory

\* C20 (as claimed): in every completed turn with memory on the compression
\* is attempted if and only if 20 or more records of the conversation are
\* stored
C20_AttemptedIffStored ==
    [][ CheckEvaluated(last')
        => ("summarize_and_prune" \in Calls(last')
               <=> StoredAtCheck(last') >= AutoSummaryCount) ]_vars

\* C20: in every completed turn with memory on count_messages is called
\* once and the compression is attempted, once, if and only if the count it
\* reports is 20 or more: the number of stored records of the conversation,
\* or 0 when the count query fails; a turn that did not complete or ran
\* with memory off attempts none. A compression that failed is therefore
\* attempted again by the next completed turn whose count reports 20 or more
C20_AttemptedIffReported ==
    [][ /\ CheckEvaluated(last')
          => /\ TimesCalled(last', "count_messages") = 1
             /\ TimesCalled(last', "summarize_and_prune") <= 1
             /\ "summarize_and_prune" \in Calls(last')
                   <=> ReportedAtCheck(last') >= AutoSummaryCount
        /\ (last'.op \in {"turn", "rejected"} /\ ~CheckEvaluated(last'))
          => Calls(last') \cap {"count_messages", "summarize_and_prune"} = {} ]_vars

\* C20 (witness): the turn before this one attempted the compression of 20
\* stored records and failed in the delete, leaving its summary and the 20
\* records; this turn, with 22 stored, attempted it again and succeeded
C20_Witness ==
    /\ CheckEvaluated(last) /\ last.F = {} /\ failed_runs = 1
    /\ last.n = 20
    /\ "summarize_and_prune" \in Calls(last)
    /\ Len(summaries) = 2
    /\ Len(Mine(memory_vectors)) = 10

----------------------------------------------------------------------------
(* The window of a pass: claim C21 *)

\* the pass of this step wrote a summary row: the ids it covers are toSummarize
SummaryWritten == Len(summarized') = Len(summarized) + 1

\* the split the claim describes, on the rows of the conversation before the
\* pass: toSummarize is what the most recent 100 rows hold besides the 10
\* most recent rows
ClaimedToSummarize(before) ==
    Ids(LastN(OrderByCreatedAt(before), FetchLimit))
        \ Ids(LastN(OrderByCreatedAt(before), KeepLast))

\* C21: a pass summarizes the most recent 100 rows of the conversation less
\* its 10 most recent rows, also when the conversation holds more than 100
C21_WindowIsMostRecent ==
    [][ (last'.op \in PassOps /\ SummaryWritten)
        => summarized'[Len(summarized')] = ClaimedToSummarize(Mine(memory_vectors)) ]_vars

----------------------------------------------------------------------------
(* The messages of a turn: claim C22 *)

\* the size of the transcript window sent with a turn
WindowSize == 10

\* the transcript as the turn of this step saw it when it prepared its
\* messages: the transcript before, and the message submitted
TranscriptAtSend == Append(history, [role |-> "user", content |-> last'.user_input])

\* the system message carries the recalled-memory section built from the rows
SectionOf(content, rows) ==
    /\ StartsWith(content, system_base)
    /\ Contains(content, "Relevant context from previous conversation:")
    /\ \A i \in 1..Len(rows) :
          Contains(content, "Previous " \o rows[i].role \o ": " \o rows[i].content)

----------------------------------------------------------------------------
(* The records of a turn: claim C23 *)

\* the rows of the table after the step that were not in it before, in the
\* order they were written
NewRecords == SelectSeq(memory_vectors', LAMBDA r : r.id \notin Ids(memory_vectors))

\* the calls a turn makes on the memory manager
MemoryCalls ==
    {"recall", "add_message user", "add_message assistant", "count_messages",
     "summarize_and_prune"}

\* C23: with memory on, every turn whose completion call returned leaves
\* exactly two new rows of the conversation, the user's message and then the
\* assistant's; with memory off a turn makes no call on the memory manager
\* and leaves the table as it is
C23_TwoRecordsPerCompletion ==
    [][ /\ (CompletionSucceeded(last') /\ use_memory)
          => /\ Len(NewRecords) = 2
             /\ NewRecords[1].role = "user" /\ NewRecords[2].role = "assistant"
             /\ NewRecords[1].content = last'.user_input
             /\ \A i \in 1..2 : /\ NewRecords[i].user_id = user_id
                                 /\ NewRecords[i].conversation_id = conversation_id
        /\ (last'.op = "turn" /\ ~use_memory)
          => /\ Calls(last') \cap MemoryCalls = {}
             /\ memory_vectors' = memory_vectors
             /\ summaries' = summaries ]_vars

----------------------------------------------------------------------------
(* The scope of deletes: claim C24 *)

\* the rows of the table that are not of the session's conversation
Others(mv) ==
    SelectSeq(mv, LAMBDA r : ~(r.user_id = user_id /\ r.conversation_id = conversation_id))

\* C24: a pass, the check that guards it and delete_conversation leave every
\* row of another conversation and of another user as it is, and no step
\* deletes or changes a summary row: the rows of table summaries before the
\* step are its first rows after it
C24_DeletesScoped ==
    [][ /\ Others(memory_vectors') = Others(memory_vectors)
        /\ Len(summaries') >= Len(summaries)
        /\ SubSeq(summaries', 1, Len(summaries)) = summaries ]_vars

\* C24 (witness): a pass has deleted rows of the session's conversation and
\* delete_conversation then the rest; a summary and the rows of the other
\* user and of the other conversation are stored
C24_Witness ==
    /\ last.op = "delete_conversation" /\ last.ret /\ last.n = 10
    /\ Mine(memory_vectors) = <<>>
    /\ memory_vectors = ForeignRows
    /\ Len(summaries) = 1

----------------------------------------------------------------------------
(* The stored context stays bounded: claim C25 *)

\* C25: in a session with memory on in which no collaborator call has
\* failed, fewer than 20 rows of the active conversation are stored at the
\* end of every completed turn
C25_StoredBelowThreshold ==
    (last.op = "turn" /\ last.ret /\ use_memory /\ failed_runs = 0)
        => Len(Mine(memory_vectors)) < AutoSummaryCount

\* C25 (witness): the tenth turn of a conversation found 18 rows, wrote the
\* 19th and 20th, and its check pruned the conversation to 10 rows
C25_Witness ==
    /\ last.op = "turn" /\ last.ret /\ use_memory /\ failed_runs = 0
    /\ last.n = 18
    /\ "summarize_and_prune" \in Calls(last)
    /\ Len(Mine(memory_vectors)) = 10
    /\ Len(summaries) = 1

----------------------------------------------------------------------------
(* A summary that could not be read: claim C26 *)

\* the text extract_content returns when reading the response raised
ExtractionError == extract_content("Anthropic", "summary", TRUE)

\* C26: a pass in which reading the text of the summarization response
\* fails writes no summary and deletes no row, and no summary row ever
\* holds the text of an extraction error
C26_ExtractFailureAborts ==
    [][ /\ (last'.op \in PassOps /\ "extract" \in last'.F)
          => /\ summaries' = summaries
             /\ memory_vectors' = memory_vectors
        /\ \A i \in 1..Len(summaries') : summaries'[i].summary # ExtractionError ]_vars

----------------------------------------------------------------------------
(* Accounting of the summarization call: claim C27 *)

\* C27: a completed turn accounts for every completion call it made: it
\* emits one usage record for each (when the analytics insert does not
\* fail), and when its check made the summarization call the token total
\* grows by more than the tokens of the chat call
C27_EveryCallAccounted ==
    [][ (last'.op = "turn" /\ last'.ret)
        => /\ "log" \notin last'.F
                 => Len(analytics') = Len(analytics) + last'.llm_calls
           /\ last'.llm_calls > 1
                 => total_tokens_used' > total_tokens_used + last'.tokens ]_vars

----------------------------------------------------------------------------
(* The shape of the transcript: claim C28 *)

\* C28: between turns the transcript is user, assistant, user, assistant,
\* ...: it starts with a user message and every user message is followed
\* by its reply
C28_TranscriptAlternates ==
    /\ Len(history) % 2 = 0
    /\ \A i \in 1..Len(history) :
          history[i].role = IF i % 2 = 1 THEN "user" ELSE "assistant"

----------------------------------------------------------------------------
(* Logging out: claim C29 *)

\* the session holds no chat state of a user
ChatStateCleared ==
    /\ history' = <<>>
    /\ total_tokens_used' = 0
    /\ total_cost' = 0

\* the conversation ids of the rows and usage records of other users than uid
ConversationsOfOthers(uid) ==
    {memory_vectors[i].conversation_id :
        i \in {j \in 1..Len(memory_vectors) : memory_vectors[j].user_id # uid}}
    \cup {analytics[i].conversation_id :
             i \in {j \in 1..Len(analytics) : analytics[j].user_id # uid}}

\* C29: a step that logs the session out (the Logout page, the session
\* timeout) clears the transcript and the totals, and a step that logs a
\* user in leaves them with an empty transcript and a conversation id under
\* which no other user has a stored record or a usage record
C29_LogoutClearsChatState ==
    [][ /\ (user_id # None /\ user_id' = None) => ChatStateCleared
        /\ (user_id = None /\ user_id' # None)
              => /\ history' = <<>>
                 /\ conversation_id' \notin ConversationsOfOthers(user_id') ]_vars

----------------------------------------------------------------------------
(* What the provider is sent: claim C30 *)

\* the contents a request carries, in order: its system text, the contents
\* of its messages, its prompt
RequestContents(request) ==
    (IF request.system # "" THEN << request.system >> ELSE <<>>)
    \o ContentsOf(request.messages)
    \o (IF request.prompt # "" THEN << request.prompt >> ELSE <<>>)

\* C30: the request of every turn carries the content of the system message
\* and of every message of the window, the contents of the list whose
\* tokens the turn counted as input tokens, for each of the three providers
C30_RequestCarriesMessages ==
    last.op = "turn" => RequestContents(last.request) = ContentsOf(last.messages)

====
